---- MODULE Spec2Model ----
(***************************************************************************)
(* A model of the city-gas bill integration (custom_components/            *)
(* city_gas_bill): the billing calculator of billing.py and the period-    *)
(* reset sequence of the total-bill sensor of sensor.py.                   *)
(*                                                                         *)
(* Numbers.  The code computes with Python floats.  The model computes     *)
(* with exact rationals, kept as integer numerators over a denominator     *)
(* that is fixed per calculation:                                          *)
(*   - a meter or start reading is a whole number of 1/Scale m3;           *)
(*   - a correction factor is a whole number of 1/CfScale;                 *)
(*   - a corrected usage is a whole number of 1/UDen m3, UDen =            *)
(*     Scale * CfScale;                                                    *)
(*   - every energy, fee and reduction of one bill calculation is a        *)
(*     numerator over D = UDen * total_days.                               *)
(* Heat values, prices, fees and the boundary are whole numbers.           *)
(* Binary rounding of the floats is not modelled.                          *)
(***************************************************************************)
EXTENDS Integers, Sequences, FiniteSets, TLC

VARIABLES
    today,          \* date.today(): [y, m, d]
    minute,         \* datetime.now(): the minute slot of the day
    reading_day,    \* entry option CONF_READING_DAY (0 = last day of month)
    reading_time,   \* entry option CONF_READING_TIME as stored
    usage_type,     \* entry option CONF_USAGE_TYPE
    tariff,         \* the number entities read by _get_bill_config_inputs
    arg,            \* argument of the pure function under check
    ret,            \* its result ("none" before the call)
    gas,            \* state of the meter entity CONF_GAS_SENSOR: [ok, v]
    start_reading,  \* state of the number entity monthly_start_reading
    rates_ok,       \* whether every rate number entity has a numeric state
    last_reset_day, \* TotalBillSensor._last_reset_day
    native_value,   \* TotalBillSensor._attr_native_value
    bill_attrs,     \* TotalBillSensor._attr_extra_state_attributes
    pc,             \* position of the timer task and of the update task
    loc,            \* locals of a task suspended in _check_and_reset_on_reading_day
    woke,           \* whether the reading-time timer has fired today
    events,         \* the bill-reset events fired on the bus, oldest first
    prev_record,    \* PreviousMonthBillSensor: state and attributes
    pre_prev_record, \* PrePreviousMonthBillSensor: state and attributes
    outages,        \* how many times an entity has become unavailable
    start0,         \* history: the start reading at construction
    last_step       \* history: whether the last step was a reset check, and its outcome

pureVars == <<arg, ret>>
configVars == <<reading_day, reading_time, usage_type, tariff>>
clockVars == <<today, minute>>
sensorVars == <<gas, start_reading, rates_ok, last_reset_day, native_value, bill_attrs,
                pc, loc, woke, events, prev_record, pre_prev_record, outages, start0, last_step>>
vars == <<today, minute, reading_day, reading_time, usage_type, tariff, arg, ret,
          gas, start_reading, rates_ok, last_reset_day, native_value, bill_attrs,
          pc, loc, woke, events, prev_record, pre_prev_record, outages, start0, last_step>>

None == "none"

(***************************************************************************)
(* Bounds of the model.                                                    *)
(***************************************************************************)
FirstYear == 2023
LastYear == 2025

(***************************************************************************)
(* Calendar: datetime.date, calendar.monthrange, timedelta, relativedelta. *)
(***************************************************************************)
Min(a, b) == IF a <= b THEN a ELSE b
Max(a, b) == IF a >= b THEN a ELSE b

IsLeap(y) == y % 4 = 0 /\ (y % 100 # 0 \/ y % 400 = 0)

\* calendar.monthrange(y, m)[1]
DaysInMonth(y, m) ==
    IF m = 2 THEN (IF IsLeap(y) THEN 29 ELSE 28)
    ELSE IF m \in {4, 6, 9, 11} THEN 30 ELSE 31

Date(y, m, d) == [y |-> y, m |-> m, d |-> d]

ValidDate(dt) == dt.m \in 1..12 /\ dt.d >= 1 /\ dt.d <= DaysInMonth(dt.y, dt.m)

RECURSIVE DaysBeforeMonth(_, _)
DaysBeforeMonth(y, m) ==
    IF m = 1 THEN 0 ELSE DaysBeforeMonth(y, m - 1) + DaysInMonth(y, m - 1)

\* date.toordinal(): the proleptic Gregorian day number
Ord(dt) ==
    LET y1 == dt.y - 1
    IN  y1 * 365 + (y1 \div 4) - (y1 \div 100) + (y1 \div 400)
        + DaysBeforeMonth(dt.y, dt.m) + dt.d

\* (a - b).days
DaysBetween(a, b) == Ord(a) - Ord(b)

\* a < b, a <= b on dates
DateLt(a, b) ==
    \/ a.y < b.y
    \/ a.y = b.y /\ a.m < b.m
    \/ a.y = b.y /\ a.m = b.m /\ a.d < b.d
DateLe(a, b) == a = b \/ DateLt(a, b)

\* dt - timedelta(days=1)
MinusOneDay(dt) ==
    IF dt.d > 1 THEN Date(dt.y, dt.m, dt.d - 1)
    ELSE IF dt.m > 1 THEN Date(dt.y, dt.m - 1, DaysInMonth(dt.y, dt.m - 1))
    ELSE Date(dt.y - 1, 12, 31)

\* dt - relativedelta(months=1): the day is clamped to the target month
MinusOneMonth(dt) ==
    LET y == IF dt.m = 1 THEN dt.y - 1 ELSE dt.y
        m == IF dt.m = 1 THEN 12 ELSE dt.m - 1
    IN  Date(y, m, Min(dt.d, DaysInMonth(y, m)))

\* dt + relativedelta(months=1)
PlusOneMonth(dt) ==
    LET y == IF dt.m = 12 THEN dt.y + 1 ELSE dt.y
        m == IF dt.m = 12 THEN 1 ELSE dt.m + 1
    IN  Date(y, m, Min(dt.d, DaysInMonth(y, m)))

\* dt.replace(day=d)
ReplaceDay(dt, d) == Date(dt.y, dt.m, d)

(***************************************************************************)
(* billing.py: GasBillCalculator                                           *)
(***************************************************************************)
\* Mutant of GetLastReadingDate: the reading day itself still belongs to the
\* period that started a month earlier (> for >=)
GetLastReadingDate_StrictMutant(t, rd) ==
    IF rd = 0
    THEN LET day == DaysInMonth(t.y, t.m)
             last_month == MinusOneMonth(t)
         IN  IF t.d = day THEN t
             ELSE ReplaceDay(last_month, DaysInMonth(last_month.y, last_month.m))
    ELSE IF t.d > rd THEN ReplaceDay(t, rd)
         ELSE ReplaceDay(MinusOneMonth(t), rd)

GetLastReadingDate(t, rd) ==
    IF rd = 0
    THEN LET day == DaysInMonth(t.y, t.m)
             last_month == MinusOneMonth(t)
         IN  IF t.d = day THEN t
             ELSE ReplaceDay(last_month, DaysInMonth(last_month.y, last_month.m))
    ELSE IF t.d >= rd THEN ReplaceDay(t, rd)
         ELSE ReplaceDay(MinusOneMonth(t), rd)

\* sensor.py keeps its own copy of the same function
SensorGetLastReadingDate(t, rd) ==
    IF rd = 0
    THEN LET day == DaysInMonth(t.y, t.m)
             last_month == MinusOneMonth(t)
         IN  IF t.d = day THEN t
             ELSE ReplaceDay(last_month, DaysInMonth(last_month.y, last_month.m))
    ELSE IF t.d >= rd THEN ReplaceDay(t, rd)
         ELSE ReplaceDay(MinusOneMonth(t), rd)

\* Mutant of SplitDaysForPeriod: the previous-month part loses its last day
\* (the "+ 1" of prev_month_days is dropped)
SplitDaysForPeriod_OffByOneMutant(t, rd) ==
    LET start_of_period == GetLastReadingDate(t, rd)
        first_day_of_curr_month == ReplaceDay(t, 1)
        last_day_of_prev_month == MinusOneDay(first_day_of_curr_month)
        prev_month_days ==
            IF DateLe(start_of_period, t) /\ DateLt(start_of_period, first_day_of_curr_month)
            THEN DaysBetween(last_day_of_prev_month, start_of_period)
            ELSE 0
        curr_month_start ==
            IF DateLt(start_of_period, first_day_of_curr_month)
            THEN first_day_of_curr_month ELSE start_of_period
        curr_month_days ==
            IF DateLe(start_of_period, t)
            THEN DaysBetween(t, curr_month_start) + 1
            ELSE 0
    IN  [start_of_period |-> start_of_period,
         prev_days |-> prev_month_days,
         curr_days |-> curr_month_days,
         total_days |-> prev_month_days + curr_month_days]

SplitDaysForPeriod(t, rd) ==
    LET start_of_period == GetLastReadingDate(t, rd)
        first_day_of_curr_month == ReplaceDay(t, 1)
        last_day_of_prev_month == MinusOneDay(first_day_of_curr_month)
        prev_month_days ==
            IF DateLe(start_of_period, t) /\ DateLt(start_of_period, first_day_of_curr_month)
            THEN DaysBetween(last_day_of_prev_month, start_of_period) + 1
            ELSE 0
        curr_month_start ==
            IF DateLt(start_of_period, first_day_of_curr_month)
            THEN first_day_of_curr_month ELSE start_of_period
        curr_month_days ==
            IF DateLe(start_of_period, t)
            THEN DaysBetween(t, curr_month_start) + 1
            ELSE 0
    IN  [start_of_period |-> start_of_period,
         prev_days |-> prev_month_days,
         curr_days |-> curr_month_days,
         total_days |-> prev_month_days + curr_month_days]

(***************************************************************************)
(* Fixed-point scales of the model's numbers.                              *)
(***************************************************************************)
Scale == 2
CfScale == 10
UDen == Scale * CfScale

\* math.floor(a / b) for b > 0
FloorDiv(a, b) == a \div b

\* winter_reduction_fee if month in [12, 1, 2, 3] else non_winter_reduction_fee
ReductionAmount(month, tf) ==
    IF month \in {12, 1, 2, 3} THEN tf.winter_reduction_fee
    ELSE tf.non_winter_reduction_fee

\* Mutant of FinalTotalFee: rounds to the nearest 10 instead of truncating
FinalTotalFee_RoundMutant(n, d) == FloorDiv(n * 11 + d * 50, d * 100) * 10

\* final_total_fee = math.floor(total_fee_with_vat / 10) * 10 with
\* total_fee_with_vat = total_fee_before_vat * 1.1; n / d is total_fee_before_vat
FinalTotalFee(n, d) == FloorDiv(n * 11, d * 100) * 10

\* Mutant of PrevReductionMonth: both parts keyed by today's month
PrevReductionMonth_TodayMutant(start_of_period, t) == t.m

\* The month that selects the reduction of the previous-month part
PrevReductionMonth(start_of_period, t) == start_of_period.m

\* Mutant of CookingMj: the whole boundary is billed as cooking energy
CookingMj_NoMinMutant(usage_mj, boundary_mj) == boundary_mj

\* The cooking part of a period's energy
CookingMj(usage_mj, boundary_mj) == Min(usage_mj, boundary_mj)

\* Mutant of ActualReduction: the reduction is not capped by the fee
ActualReduction_UncappedMutant(pro_rated_reduction, fee) == pro_rated_reduction

\* billing.py: actual_*_reduction = min(*_pro_rated_reduction, *_fee)
ActualReduction(pro_rated_reduction, fee) == Min(pro_rated_reduction, fee)

\* Mutant of UsageM3: a part takes the whole usage
UsageM3_WholeMutant(U, days, total_days) == U * total_days

\* corrected_usage * (days / total_days), as a numerator over UDen * total_days
UsageM3(U, days, total_days) == U * days

\* Mutant of EffectiveBoundary: equal prices in one period are enough
EffectiveBoundary_AnyEqualMutant(tf) ==
    IF tf.prev_price_cooking = tf.prev_price_heating
       \/ tf.curr_price_cooking = tf.curr_price_heating
    THEN 0 ELSE tf.cooking_heating_boundary

\* effective_boundary: 0 when cooking and heating prices are equal in both periods
EffectiveBoundary(tf) ==
    IF tf.prev_price_cooking = tf.prev_price_heating
       /\ tf.curr_price_cooking = tf.curr_price_heating
    THEN 0 ELSE tf.cooking_heating_boundary

\* compute_total_bill_from_usage; U is corrected_usage in 1/UDen m3.  Every
\* energy, fee and reduction of the result is a numerator over D.
BillOfPeriod(U, tf, t, ut, sp) ==
    LET prev_days == sp.prev_days
        curr_days == sp.curr_days
        total_days == sp.total_days
        D == UDen * total_days
        attrs0 == [start_date |-> sp.start_of_period, end_date |-> t,
                   days_total |-> total_days, days_prev_month |-> prev_days,
                   days_curr_month |-> curr_days,
                   cooking_heating_boundary |-> tf.cooking_heating_boundary]
    IN  IF total_days <= 0
        THEN [degenerate |-> TRUE, attrs |-> attrs0,
              total_fee |-> FinalTotalFee(tf.base_fee, 1)]
        ELSE
        LET prev_usage_m3 == UsageM3(U, prev_days, total_days)
            curr_usage_m3 == UsageM3(U, curr_days, total_days)
            prev_usage_mj == prev_usage_m3 * tf.prev_heat
            curr_usage_mj == curr_usage_m3 * tf.curr_heat
            effective_boundary == EffectiveBoundary(tf)
            split == ut \notin {"cooking_only", "heating_only"} /\ effective_boundary > 0
            boundary_prev_mj == effective_boundary * prev_days * UDen
            boundary_curr_mj == effective_boundary * curr_days * UDen
            prev_cooking_mj == CookingMj(prev_usage_mj, boundary_prev_mj)
            prev_heating_mj == Max(0, prev_usage_mj - prev_cooking_mj)
            curr_cooking_mj == CookingMj(curr_usage_mj, boundary_curr_mj)
            curr_heating_mj == Max(0, curr_usage_mj - curr_cooking_mj)
            prev_cooking_fee ==
                IF ut = "cooking_only" THEN prev_usage_mj * tf.prev_price_cooking
                ELSE IF split THEN prev_cooking_mj * tf.prev_price_cooking ELSE 0
            curr_cooking_fee ==
                IF ut = "cooking_only" THEN curr_usage_mj * tf.curr_price_cooking
                ELSE IF split THEN curr_cooking_mj * tf.curr_price_cooking ELSE 0
            prev_heating_fee ==
                IF ut = "cooking_only" THEN 0
                ELSE IF split THEN prev_heating_mj * tf.prev_price_heating
                ELSE prev_usage_mj * tf.prev_price_heating
            curr_heating_fee ==
                IF ut = "cooking_only" THEN 0
                ELSE IF split THEN curr_heating_mj * tf.curr_price_heating
                ELSE curr_usage_mj * tf.curr_price_heating
            prev_fee == prev_cooking_fee + prev_heating_fee
            curr_fee == curr_cooking_fee + curr_heating_fee
            prev_month == PrevReductionMonth(sp.start_of_period, t)
            curr_month == t.m
            prev_pro_rated_reduction == ReductionAmount(prev_month, tf) * prev_days * UDen
            curr_pro_rated_reduction == ReductionAmount(curr_month, tf) * curr_days * UDen
            actual_prev_reduction == ActualReduction(prev_pro_rated_reduction, prev_fee)
            actual_curr_reduction == ActualReduction(curr_pro_rated_reduction, curr_fee)
            total_fee_before_vat ==
                tf.base_fee * D + prev_fee - actual_prev_reduction
                + curr_fee - actual_curr_reduction
        IN  [degenerate |-> FALSE, attrs |-> attrs0, D |-> D,
             prev_usage_m3 |-> prev_usage_m3, curr_usage_m3 |-> curr_usage_m3,
             prev_usage_mj |-> prev_usage_mj, curr_usage_mj |-> curr_usage_mj,
             split |-> split,
             boundary_prev_mj |-> boundary_prev_mj, boundary_curr_mj |-> boundary_curr_mj,
             prev_cooking_mj |-> prev_cooking_mj, prev_heating_mj |-> prev_heating_mj,
             curr_cooking_mj |-> curr_cooking_mj, curr_heating_mj |-> curr_heating_mj,
             prev_cooking_fee |-> prev_cooking_fee, prev_heating_fee |-> prev_heating_fee,
             curr_cooking_fee |-> curr_cooking_fee, curr_heating_fee |-> curr_heating_fee,
             prev_fee |-> prev_fee, curr_fee |-> curr_fee,
             actual_prev_reduction |-> actual_prev_reduction,
             actual_curr_reduction |-> actual_curr_reduction,
             total_fee_before_vat |-> total_fee_before_vat,
             total_fee |-> FinalTotalFee(total_fee_before_vat, D)]

\* compute_total_bill_from_usage: the day split of the period to today, then
\* the bill of that period
ComputeTotalBillFromUsage(U, tf, t, rd, ut) ==
    BillOfPeriod(U, tf, t, ut, SplitDaysForPeriod(t, rd))

(***************************************************************************)
(* sensor.py: TotalBillSensor and the entities it reads and writes.        *)
(***************************************************************************)
Procs == {"timer", "update"}

NoDate == Date(0, 0, 0)
NoValue == -1
NoAttrs ==
    [present |-> FALSE, start_date |-> NoDate, end_date |-> NoDate,
     days_total |-> 0, days_prev_month |-> 0, days_curr_month |-> 0,
     monthly_gas_usage |-> 0]
NoLoc == [today |-> NoDate, current_reading |-> 0, start_reading |-> 0,
          new_start_value |-> 0]

\* TotalBillSensor.__init__ and the entities' states after setup
SensorConstructed(g, s) ==
    /\ gas = [ok |-> TRUE, v |-> g]
    /\ start_reading = s
    /\ rates_ok = TRUE
    /\ last_reset_day = NoDate
    /\ native_value = 0
    /\ bill_attrs = NoAttrs
    /\ pc = [p \in Procs |-> "idle"]
    /\ loc = [p \in Procs |-> NoLoc]
    /\ woke = FALSE
    /\ events = <<>>
    /\ prev_record = [state |-> NoValue, attrs |-> NoAttrs]
    /\ pre_prev_record = [state |-> 0, attrs |-> NoAttrs]
    /\ outages = 0
    /\ start0 = s
    /\ last_step = "other"

(***************************************************************************)
(* Inputs of the pure-function specifications.                             *)
(***************************************************************************)
UsageTypes == {"combined", "cooking_only", "heating_only"}
ReadingDays == 0..28

AllDates ==
    {dt \in [y : FirstYear..LastYear, m : 1..12, d : 1..31] : ValidDate(dt)}

\* number.py: the default values of the number entities
DefaultTariff ==
    [base_fee |-> 1250, prev_heat |-> 43, curr_heat |-> 43,
     prev_price_cooking |-> 22, prev_price_heating |-> 22,
     curr_price_cooking |-> 22, curr_price_heating |-> 22,
     correction_factor |-> CfScale,
     winter_reduction_fee |-> 0, non_winter_reduction_fee |-> 0,
     cooking_heating_boundary |-> 0]

MaxBillUsage == 4
BillUsages == {0, 1, 30 * UDen} \cup {k * (UDen \div 2) : k \in 0..MaxBillUsage}
BillDates == {Date(2024, 4, 20), Date(2024, 3, 5), Date(2024, 2, 29), Date(2025, 1, 10)}
BillReadingDays == {0, 22, 26}
BillTariffs ==
    [base_fee : {0, 1250}, prev_heat : {30, 43}, curr_heat : {40},
     prev_price_cooking : {1, 2}, prev_price_heating : {2},
     curr_price_cooking : {2, 3}, curr_price_heating : {3},
     correction_factor : {CfScale},
     winter_reduction_fee : {0, 300, 100000}, non_winter_reduction_fee : {0, 200},
     cooking_heating_boundary : {0, 516, 2000}]

NoRet == [fn |-> "none"]

(***************************************************************************)
(* SpecDates: the date functions applied to every date and reading day.    *)
(***************************************************************************)
InitDates ==
    /\ today \in AllDates
    /\ reading_day \in ReadingDays
    /\ minute = 0
    /\ reading_time = [fmt |-> "HH:MM", minute |-> 0]
    /\ usage_type = "combined"
    /\ tariff = DefaultTariff
    /\ arg = 0
    /\ ret = NoRet
    /\ SensorConstructed(0, 0)

CallSplitDays ==
    /\ ret = NoRet
    /\ ret' = [fn |-> "split_days_for_period", val |-> SplitDaysForPeriod(today, reading_day)]
    /\ UNCHANGED <<today, minute, reading_day, reading_time, usage_type, tariff, arg>>
    /\ UNCHANGED sensorVars

CallLastReadingDate ==
    /\ ret = NoRet
    /\ ret' = [fn |-> "get_last_reading_date",
               val |-> GetLastReadingDate(today, reading_day),
               sensor_val |-> SensorGetLastReadingDate(today, reading_day)]
    /\ UNCHANGED <<today, minute, reading_day, reading_time, usage_type, tariff, arg>>
    /\ UNCHANGED sensorVars

\* Mutant of GetNextReadingDate: the end-of-month day is not recomputed
GetNextReadingDate_KeepDayMutant(start_date, rd) ==
    LET next_month == PlusOneMonth(start_date)
    IN  IF rd = 0 THEN next_month ELSE ReplaceDay(next_month, rd)

\* GasBillCalculator.get_next_reading_date
GetNextReadingDate(start_date, rd) ==
    LET next_month == PlusOneMonth(start_date)
    IN  IF rd = 0
        THEN ReplaceDay(next_month, DaysInMonth(next_month.y, next_month.m))
        ELSE ReplaceDay(next_month, rd)

\* Mutant of SensorGetNextReadingDate: the end-of-month day is not recomputed
SensorGetNextReadingDate_KeepDayMutant(start_date, rd) ==
    LET next_month == PlusOneMonth(start_date)
    IN  IF rd = 0 THEN next_month ELSE ReplaceDay(next_month, rd)

\* sensor.py: _get_next_reading_date
SensorGetNextReadingDate(start_date, rd) ==
    LET next_month == PlusOneMonth(start_date)
    IN  IF rd = 0
        THEN ReplaceDay(next_month, DaysInMonth(next_month.y, next_month.m))
        ELSE ReplaceDay(next_month, rd)

\* get_next_reading_date of a start date, and of the start of today's period
\* as EstimatedUsageSensor.async_update calls it
CallNextReadingDate ==
    /\ ret = NoRet
    /\ ret' = [fn |-> "get_next_reading_date",
               val |-> GetNextReadingDate(today, reading_day),
               sensor_val |-> SensorGetNextReadingDate(today, reading_day),
               start_of_period |-> SensorGetLastReadingDate(today, reading_day),
               next_reading_day |->
                   SensorGetNextReadingDate(SensorGetLastReadingDate(today, reading_day),
                                            reading_day)]
    /\ UNCHANGED <<today, minute, reading_day, reading_time, usage_type, tariff, arg>>
    /\ UNCHANGED sensorVars

\* EstimatedBillSensor.async_update: the dates the estimated bill is computed
\* for, next to the period the live bill of today is computed for
CallEstimatedBillPeriod ==
    /\ ret = NoRet
    /\ LET start_of_period == SensorGetLastReadingDate(today, reading_day)
           next_reading_day == SensorGetNextReadingDate(start_of_period, reading_day)
           calculation_end_date == MinusOneDay(next_reading_day)
       IN  ret' = [fn |-> "estimated_bill_period",
                   start_of_period |-> start_of_period,
                   next_reading_day |-> next_reading_day,
                   calculation_end_date |-> calculation_end_date,
                   estimated_split |-> SplitDaysForPeriod(calculation_end_date, reading_day),
                   live_split |-> SplitDaysForPeriod(today, reading_day)]
    /\ UNCHANGED <<today, minute, reading_day, reading_time, usage_type, tariff, arg>>
    /\ UNCHANGED sensorVars

NextDates ==
    CallSplitDays \/ CallLastReadingDate \/ CallNextReadingDate \/ CallEstimatedBillPeriod

SpecDates == InitDates /\ [][NextDates]_vars

(***************************************************************************)
(* SpecBill: compute_total_bill_from_usage applied to bounded inputs.      *)
(***************************************************************************)
InitBill ==
    /\ today \in BillDates
    /\ reading_day \in BillReadingDays
    /\ minute = 0
    /\ reading_time = [fmt |-> "HH:MM", minute |-> 0]
    /\ usage_type \in UsageTypes
    /\ tariff \in BillTariffs
    /\ arg \in BillUsages
    /\ ret = NoRet
    /\ SensorConstructed(0, 0)

CallComputeBill ==
    /\ ret = NoRet
    /\ ret' = [fn |-> "compute_total_bill_from_usage",
               val |-> ComputeTotalBillFromUsage(arg, tariff, today, reading_day, usage_type)]
    /\ UNCHANGED <<today, minute, reading_day, reading_time, usage_type, tariff, arg>>
    /\ UNCHANGED sensorVars

NextBill == CallComputeBill

SpecBill == InitBill /\ [][NextBill]_vars

(***************************************************************************)
(* The periodic (bi-monthly / quarterly) helpers of the calculator.        *)
(***************************************************************************)
\* the values CONF_READING_CYCLE can hold; None and an unknown string too
ReadingCycles ==
    {None, "disabled", "odd", "even", "quarterly_1", "quarterly_2", "quarterly_3",
     "unknown"}

QuarterlyCycles == {"quarterly_1", "quarterly_2", "quarterly_3"}

\* Mutant of IsBillingMonth: the quarterly cycles are shifted by one month
IsBillingMonth_ShiftedMutant(t, reading_cycle) ==
    IF reading_cycle = None \/ reading_cycle = "disabled" THEN FALSE
    ELSE IF reading_cycle = "odd" THEN t.m % 2 = 1
    ELSE IF reading_cycle = "even" THEN t.m % 2 = 0
    ELSE IF reading_cycle = "quarterly_1" THEN t.m % 3 = 2
    ELSE IF reading_cycle = "quarterly_2" THEN t.m % 3 = 0
    ELSE IF reading_cycle = "quarterly_3" THEN t.m % 3 = 1
    ELSE FALSE

\* GasBillCalculator.is_billing_month
IsBillingMonth(t, reading_cycle) ==
    IF reading_cycle = None \/ reading_cycle = "disabled" THEN FALSE
    ELSE IF reading_cycle = "odd" THEN t.m % 2 = 1
    ELSE IF reading_cycle = "even" THEN t.m % 2 = 0
    ELSE IF reading_cycle = "quarterly_1" THEN t.m % 3 = 1
    ELSE IF reading_cycle = "quarterly_2" THEN t.m % 3 = 2
    ELSE IF reading_cycle = "quarterly_3" THEN t.m % 3 = 0
    ELSE FALSE

\* GasBillCalculator.aggregate_periodic
AggregatePeriodic(current_value, prev_value, t, reading_cycle, pre_prev_value) ==
    IF IsBillingMonth(t, reading_cycle)
    THEN IF reading_cycle \in QuarterlyCycles
         THEN current_value + prev_value + pre_prev_value
         ELSE current_value + prev_value
    ELSE current_value

(***************************************************************************)
(* SpecAgg: aggregate_periodic applied, repeatedly, to bounded inputs.     *)
(***************************************************************************)
MaxAggValue == 2
MaxCalls == 2
AggValues == 0..MaxAggValue
AggDates == {Date(2024, m, 15) : m \in 1..12}

InitAgg ==
    /\ today \in AggDates
    /\ reading_day = 0
    /\ minute = 0
    /\ reading_time = [fmt |-> "HH:MM", minute |-> 0]
    /\ usage_type = "combined"
    /\ tariff = DefaultTariff
    /\ arg \in [current_value : AggValues, prev_value : AggValues,
                pre_prev_value : AggValues, reading_cycle : ReadingCycles]
    /\ ret = NoRet
    /\ SensorConstructed(0, 0)

CallAggregatePeriodic ==
    /\ IF ret = NoRet THEN TRUE ELSE ret.calls < MaxCalls
    /\ ret' = [fn |-> "aggregate_periodic",
               val |-> AggregatePeriodic(arg.current_value, arg.prev_value, today,
                                         arg.reading_cycle, arg.pre_prev_value),
               \* the value of the call before this one
               last |-> IF ret = NoRet THEN None ELSE ret.val,
               calls |-> IF ret = NoRet THEN 1 ELSE ret.calls + 1]
    /\ UNCHANGED <<today, minute, reading_day, reading_time, usage_type, tariff, arg>>
    /\ UNCHANGED sensorVars

NextAgg == CallAggregatePeriodic

SpecAgg == InitAgg /\ [][NextAgg]_vars

(***************************************************************************)
(* The reset sequence of TotalBillSensor.                                  *)
(*                                                                         *)
(* _check_and_reset_on_reading_day is a coroutine with one await, the      *)
(* blocking service call number.set_value.  A task running it takes three  *)
(* steps: CheckAndReset (everything up to the await, the firing of the     *)
(* event included), ServiceSetValue (the number entity stores the value    *)
(* and its state-change listeners run) and SetLatch (the coroutine         *)
(* resumes and sets _last_reset_day).  Other tasks may run between the     *)
(* steps.  Tasks finish within the clock minute they started in.           *)
(***************************************************************************)
MaxMinute == 1
MaxGas == 3
MaxEvents == 2
MaxOutages == 1

Minutes == 0..MaxMinute
SimDates == {Date(2024, 2, 26), Date(2024, 2, 29), Date(2024, 3, 26), Date(2024, 3, 31)}
SimReadingDays == {0, 26}
SimReadingTimes == {[fmt |-> "HH:MM", minute |-> 1]}

\* datetime.strptime(reading_time_str, "%H:%M").time(), "00:00" when it raises
ParseReadingTime(rt) == IF rt.fmt = "HH:MM" THEN rt.minute ELSE 0

IsReadingTime == minute = ParseReadingTime(reading_time)

IsReadingDay(t, rd) ==
    \/ rd = 0 /\ t.d = DaysInMonth(t.y, t.m)
    \/ rd # 0 /\ t.d = rd

\* Mutant of ResetDue: the latch is not consulted
ResetDue_NoLatchMutant == IsReadingDay(today, reading_day) /\ IsReadingTime

\* is_reading_day and is_reading_time and self._last_reset_day != today
ResetDue ==
    IsReadingDay(today, reading_day) /\ IsReadingTime /\ last_reset_day # today

\* Mutant of IntPart: rounds half up instead of truncating
IntPart_RoundMutant(x) == (x + Scale \div 2) \div Scale

\* int(x) for x >= 0 in 1/Scale units: the whole units
IntPart(x) == x \div Scale

\* Mutant of MonthlyUsageRaw: a negative difference is kept
MonthlyUsageRaw_SignedMutant(current_reading, start) == current_reading - start

\* monthly_usage_raw: current_reading - start_reading, 0 when negative
MonthlyUsageRaw(current_reading, start) == Max(0, current_reading - start)

\* Mutant of NewStartValue: the start reading is not advanced
NewStartValue_KeepMutant(current_reading, start) == start

\* new_start_value = start_reading + monthly_usage_int
NewStartValue(current_reading, start) ==
    start + IntPart(MonthlyUsageRaw(current_reading, start)) * Scale

\* The attributes the sensor and the event take from a bill calculation
AttrsOf(bill, usage_int) ==
    [present |-> TRUE,
     start_date |-> bill.attrs.start_date, end_date |-> bill.attrs.end_date,
     days_total |-> bill.attrs.days_total,
     days_prev_month |-> bill.attrs.days_prev_month,
     days_curr_month |-> bill.attrs.days_curr_month,
     monthly_gas_usage |-> usage_int]

\* Mutant of SnapshotBill: computed from the start reading the reset is to write
SnapshotBill_AfterWriteMutant ==
    ComputeTotalBillFromUsage(
        IntPart(MonthlyUsageRaw(gas.v, NewStartValue(gas.v, start_reading)))
            * Scale * tariff.correction_factor,
        tariff, today, reading_day, usage_type)

\* The snapshot computed in the reset: the bill of the integer usage
SnapshotBill ==
    ComputeTotalBillFromUsage(
        IntPart(MonthlyUsageRaw(gas.v, start_reading)) * Scale * tariff.correction_factor,
        tariff, today, reading_day, usage_type)

\* Where a task goes when its reset check is over
AfterCheck(p) == IF p = "update" THEN "calc" ELSE "idle"

\* async_track_state_change_event -> _handle_state_change ->
\* async_schedule_update_ha_state(True): an update while one runs is dropped
Notify(pcv) == IF pcv["update"] = "idle" THEN [pcv EXCEPT !["update"] = "check"] ELSE pcv

AllIdle == \A p \in Procs : pc[p] = "idle"

PassTime ==
    /\ AllIdle
    /\ \E t \in SimDates, m \in Minutes :
        /\ DateLt(today, t) \/ (t = today /\ minute < m)
        /\ today' = t
        /\ minute' = m
        \* the timer fires once a day, at second 0 of the reading minute
        /\ woke' = (t = today /\ woke)
    /\ last_step' = "other"
    /\ UNCHANGED <<configVars, pureVars, gas, start_reading, rates_ok, last_reset_day,
                   native_value, bill_attrs, pc, loc, events, prev_record, pre_prev_record, start0, outages>>

\* The meter entity reports a higher reading
MeterIncrease ==
    /\ gas.ok
    /\ \E v \in (gas.v + 1)..MaxGas : gas' = [ok |-> TRUE, v |-> v]
    /\ pc' = Notify(pc)
    /\ last_step' = "other"
    /\ UNCHANGED <<clockVars, configVars, pureVars, start_reading, rates_ok, last_reset_day,
                   native_value, bill_attrs, loc, woke, events, prev_record, pre_prev_record, start0, outages>>

\* The meter entity becomes unavailable, or available again
MeterAvailability ==
    /\ gas.ok => outages < MaxOutages
    /\ gas' = [gas EXCEPT !.ok = ~gas.ok]
    /\ outages' = IF gas.ok THEN outages + 1 ELSE outages
    /\ pc' = Notify(pc)
    /\ last_step' = "other"
    /\ UNCHANGED <<clockVars, configVars, pureVars, start_reading, rates_ok, last_reset_day,
                   native_value, bill_attrs, loc, woke, events, prev_record, pre_prev_record, start0>>

\* A rate number entity becomes unavailable, or available again
RatesAvailability ==
    /\ rates_ok => outages < MaxOutages
    /\ rates_ok' = ~rates_ok
    /\ outages' = IF rates_ok THEN outages + 1 ELSE outages
    /\ pc' = Notify(pc)
    /\ last_step' = "other"
    /\ UNCHANGED <<clockVars, configVars, pureVars, gas, start_reading, last_reset_day,
                   native_value, bill_attrs, loc, woke, events, prev_record, pre_prev_record, start0>>

\* async_track_time_change at the reading time -> _handle_scheduled_reset
HandleScheduledReset ==
    /\ IsReadingTime
    /\ ~woke
    /\ pc["timer"] = "idle"
    /\ woke' = TRUE
    /\ pc' = [pc EXCEPT !["timer"] = "check"]
    /\ last_step' = "other"
    /\ UNCHANGED <<clockVars, configVars, pureVars, gas, start_reading, rates_ok,
                   last_reset_day, native_value, bill_attrs, loc, events, prev_record, pre_prev_record, start0, outages>>

\* The pre-previous record after the previous record is written: the state
\* machine reports a change only when state or attributes differ, and the
\* listener takes the old state over unless it is unknown
PrePrevAfter(pre_prev, old_state, new_state) ==
    IF new_state # old_state /\ old_state.state # NoValue THEN old_state ELSE pre_prev

\* _check_and_reset_on_reading_day up to its await
CheckAndReset(p) ==
    /\ pc[p] = "check"
    /\ IF ~ResetDue
       THEN /\ pc' = [pc EXCEPT ![p] = AfterCheck(p)]
            /\ last_step' = "check_skip"
            /\ UNCHANGED <<events, prev_record, pre_prev_record, loc>>
       ELSE \E bill \in {SnapshotBill} :
            LET computed == rates_ok /\ gas.ok
                usage_int == IntPart(MonthlyUsageRaw(gas.v, start_reading))
                event_state == IF computed THEN bill.total_fee ELSE native_value
                event_attrs == IF computed THEN AttrsOf(bill, usage_int) ELSE bill_attrs
            IN  /\ Len(events) < MaxEvents
                /\ events' = Append(events, [day |-> today, state |-> event_state,
                                             attributes |-> event_attrs])
                \* PreviousMonthBillSensor._handle_bill_reset_event
                /\ prev_record' = [state |-> event_state, attrs |-> event_attrs]
                \* PrePreviousMonthBillSensor._handle_prev_bill_change
                /\ pre_prev_record' =
                        PrePrevAfter(pre_prev_record, prev_record,
                                     [state |-> event_state, attrs |-> event_attrs])
                /\ IF gas.ok
                   THEN /\ loc' = [loc EXCEPT ![p] =
                                [today |-> today, current_reading |-> gas.v,
                                 start_reading |-> start_reading,
                                 new_start_value |-> NewStartValue(gas.v, start_reading)]]
                        /\ pc' = [pc EXCEPT ![p] = "call"]
                   ELSE /\ pc' = [pc EXCEPT ![p] = AfterCheck(p)]
                        /\ UNCHANGED loc
                /\ last_step' = "check_fire"
    /\ UNCHANGED <<clockVars, configVars, pureVars, gas, start_reading, rates_ok,
                   last_reset_day, native_value, bill_attrs, woke, start0, outages>>

\* number.set_value: RestorableNumberEntity.async_set_native_value
ServiceSetValue(p) ==
    /\ pc[p] = "call"
    /\ start_reading' = loc[p].new_start_value
    /\ pc' = [(IF start_reading' # start_reading THEN Notify(pc) ELSE pc) EXCEPT ![p] = "latch"]
    /\ last_step' = "other"
    /\ UNCHANGED <<clockVars, configVars, pureVars, gas, rates_ok, last_reset_day,
                   native_value, bill_attrs, loc, woke, events, prev_record, pre_prev_record, start0, outages>>

\* after the await: self._last_reset_day = today
SetLatch(p) ==
    /\ pc[p] = "latch"
    /\ last_reset_day' = loc[p].today
    /\ pc' = [pc EXCEPT ![p] = AfterCheck(p)]
    /\ loc' = [loc EXCEPT ![p] = NoLoc]
    /\ last_step' = "other"
    /\ UNCHANGED <<clockVars, configVars, pureVars, gas, start_reading, rates_ok,
                   native_value, bill_attrs, woke, events, prev_record, pre_prev_record, start0, outages>>

\* _calculate_bill after its reset check
CalculateBill ==
    /\ pc["update"] = "calc"
    /\ IF ~(rates_ok /\ gas.ok)
       THEN /\ native_value' = NoValue
            /\ UNCHANGED bill_attrs
       ELSE \E bill \in {ComputeTotalBillFromUsage(
                            MonthlyUsageRaw(gas.v, start_reading) * tariff.correction_factor,
                            tariff, today, reading_day, usage_type)} :
                /\ native_value' = bill.total_fee
                /\ bill_attrs' = AttrsOf(bill, IntPart(MonthlyUsageRaw(gas.v, start_reading)))
    /\ pc' = [pc EXCEPT !["update"] = "idle"]
    /\ last_step' = "other"
    /\ UNCHANGED <<clockVars, configVars, pureVars, gas, start_reading, rates_ok,
                   last_reset_day, loc, woke, events, prev_record, pre_prev_record, start0, outages>>

\* The sensor after setup, with a reading time out of rts in its options
SensorInit(rts) ==
    /\ today = Date(2024, 2, 26)
    /\ minute = 0
    /\ reading_day \in SimReadingDays
    /\ reading_time \in rts
    /\ usage_type = "combined"
    /\ tariff = DefaultTariff
    /\ arg = 0
    /\ ret = NoRet
    /\ \E g \in {1, 3}, s \in {0, Scale} : SensorConstructed(g, s)

Init == SensorInit(SimReadingTimes)

Next ==
    \/ PassTime
    \/ MeterIncrease
    \/ MeterAvailability
    \/ RatesAvailability
    \/ HandleScheduledReset
    \/ \E p \in Procs : CheckAndReset(p)
    \/ \E p \in Procs : ServiceSetValue(p)
    \/ \E p \in Procs : SetLatch(p)
    \/ CalculateBill

Spec == Init /\ [][Next]_vars

(***************************************************************************)
(* SpecAvail: the same sensor while every setting and reading stays        *)
(* available.                                                              *)
(***************************************************************************)
NextAvail ==
    \/ PassTime
    \/ MeterIncrease
    \/ HandleScheduledReset
    \/ \E p \in Procs : CheckAndReset(p)
    \/ \E p \in Procs : ServiceSetValue(p)
    \/ \E p \in Procs : SetLatch(p)
    \/ CalculateBill

SpecAvail == Init /\ [][NextAvail]_vars

(***************************************************************************)
(* SpecTimes: the same, for both forms a stored reading time can have:     *)
(* "HH:MM" (the default "00:00") and "HH:MM:SS" (what the options flow's   *)
(* TimeSelector stores).                                                   *)
(***************************************************************************)
StoredReadingTimes ==
    {[fmt |-> "HH:MM", minute |-> 1], [fmt |-> "HH:MM:SS", minute |-> 1]}

InitTimes == SensorInit(StoredReadingTimes)

SpecTimes == InitTimes /\ [][NextAvail]_vars

(***************************************************************************)
(* SpecFair: SpecAvail with the event loop's scheduling of the task that   *)
(* _handle_scheduled_reset creates: the task runs each of its steps.  At   *)
(* most one of the three steps is enabled at a time, so weak fairness of   *)
(* their disjunction is weak fairness of each.  The clock, the meter and   *)
(* the timer are the environment and get no fairness.                      *)
(***************************************************************************)
TimerTaskStep ==
    \/ CheckAndReset("timer")
    \/ ServiceSetValue("timer")
    \/ SetLatch("timer")

SpecFair == Init /\ [][NextAvail]_vars /\ WF_vars(TimerTaskStep)

(***************************************************************************)
(* SpecScrape: the coordinator, the rate number entities and the bill.     *)
(*                                                                         *)
(* tariff is what the number entities store (they restore it over a        *)
(* restart), arg is the config entry with its coordinator and ret the last *)
(* bill calculated.  async_setup_entry awaits the first refresh before it  *)
(* registers update_number_entities and forwards the platforms: a first    *)
(* refresh that fails raises ConfigEntryNotReady, the entry is not loaded  *)
(* and its set-up is tried again later.  arg.last and arg.before are       *)
(* history: the outcome of the last coordinator operation and the settings *)
(* stored when it began.                                                   *)
(***************************************************************************)
ProviderIds == {"manual", "seoul_gas"}
ScrapeFailures == {"no_data", "timeout", "raised"}
HeatResults ==
    {[prev_month_heat |-> 42, curr_month_heat |-> 43],
     [prev_month_heat |-> 40, curr_month_heat |-> 41]}
PriceResults ==
    {[prev_month_price_cooking |-> 20, prev_month_price_heating |-> 21,
      curr_month_price_cooking |-> 23, curr_month_price_heating |-> 24]}
UserRates == {22, 25}

\* The empty dict the manual provider's refresh returns
NoData ==
    [prev_month_heat |-> NoValue, curr_month_heat |-> NoValue,
     prev_month_price_cooking |-> NoValue, prev_month_price_heating |-> NoValue,
     curr_month_price_cooking |-> NoValue, curr_month_price_heating |-> NoValue]

\* {**data, **heat_data}
MergeHeat(data, heat_data) ==
    [data EXCEPT !.prev_month_heat = heat_data.prev_month_heat,
                 !.curr_month_heat = heat_data.curr_month_heat]

\* {**data, **price_data}
MergePrice(data, price_data) ==
    [data EXCEPT !.prev_month_price_cooking = price_data.prev_month_price_cooking,
                 !.prev_month_price_heating = price_data.prev_month_price_heating,
                 !.curr_month_price_cooking = price_data.curr_month_price_cooking,
                 !.curr_month_price_heating = price_data.curr_month_price_heating]

\* number.set_value for every key of coordinator.data that has a value
update_number_entities(tf, data) ==
    LET set(old, new) == IF new # NoValue THEN new ELSE old
    IN  [tf EXCEPT !.prev_heat = set(@, data.prev_month_heat),
                   !.curr_heat = set(@, data.curr_month_heat),
                   !.prev_price_cooking = set(@, data.prev_month_price_cooking),
                   !.prev_price_heating = set(@, data.prev_month_price_heating),
                   !.curr_price_cooking = set(@, data.curr_month_price_cooking),
                   !.curr_price_heating = set(@, data.curr_month_price_heating)]

ScrapeUsage == 3 * UDen

InitScrape ==
    /\ today = Date(2024, 3, 5)
    /\ reading_day = 26
    /\ minute = 0
    /\ reading_time = [fmt |-> "HH:MM", minute |-> 0]
    /\ usage_type \in {"combined", "cooking_only"}
    /\ tariff = DefaultTariff
    /\ \E id \in ProviderIds :
        arg = [provider |-> id, loaded |-> FALSE, data |-> NoData,
               last |-> None, before |-> DefaultTariff]
    /\ ret = NoRet
    /\ SensorConstructed(0, 0)

\* async_setup_entry: async_config_entry_first_refresh -> _async_update_data
AsyncUpdateData ==
    /\ ~arg.loaded
    /\ IF arg.provider = "manual"
       THEN arg' = [arg EXCEPT !.loaded = TRUE, !.data = NoData,
                               !.last = "manual", !.before = tariff]
       ELSE \/ \E heat_data \in HeatResults, price_data \in PriceResults :
                arg' = [arg EXCEPT !.loaded = TRUE,
                                   !.data = MergePrice(MergeHeat(NoData, heat_data), price_data),
                                   !.last = "ok", !.before = tariff]
            \/ \E failure \in ScrapeFailures :
                arg' = [arg EXCEPT !.last = failure, !.before = tariff]
    /\ ret' = NoRet
    /\ UNCHANGED <<today, minute, reading_day, reading_time, usage_type, tariff>>
    /\ UNCHANGED sensorVars

\* The weekly timer or the update_price_data service
async_update_price_data ==
    /\ arg.loaded
    /\ IF arg.provider = "manual"
       THEN /\ arg' = [arg EXCEPT !.last = "manual", !.before = tariff]
            /\ UNCHANGED tariff
       ELSE \/ \E price_data \in PriceResults :
                LET new_data == MergePrice(arg.data, price_data)
                IN  /\ arg' = [arg EXCEPT !.data = new_data, !.last = "ok", !.before = tariff]
                    /\ tariff' = update_number_entities(tariff, new_data)
            \/ \E failure \in ScrapeFailures :
                /\ arg' = [arg EXCEPT !.last = failure, !.before = tariff]
                /\ UNCHANGED tariff
    /\ ret' = NoRet
    /\ UNCHANGED <<today, minute, reading_day, reading_time, usage_type>>
    /\ UNCHANGED sensorVars

\* The daily timer or the update_heat_data service
async_update_heat_data ==
    /\ arg.loaded
    /\ IF arg.provider = "manual"
       THEN /\ arg' = [arg EXCEPT !.last = "manual", !.before = tariff]
            /\ UNCHANGED tariff
       ELSE \/ \E heat_data \in HeatResults :
                LET new_data == MergeHeat(arg.data, heat_data)
                IN  /\ arg' = [arg EXCEPT !.data = new_data, !.last = "ok", !.before = tariff]
                    /\ tariff' = update_number_entities(tariff, new_data)
            \/ \E failure \in ScrapeFailures :
                /\ arg' = [arg EXCEPT !.last = failure, !.before = tariff]
                /\ UNCHANGED tariff
    /\ ret' = NoRet
    /\ UNCHANGED <<today, minute, reading_day, reading_time, usage_type>>
    /\ UNCHANGED sensorVars

\* The user stores a rate in a number entity
UserSetValue ==
    /\ arg.loaded
    /\ \E v \in UserRates :
        \/ tariff' = [tariff EXCEPT !.prev_heat = v]
        \/ tariff' = [tariff EXCEPT !.curr_price_cooking = v]
    /\ tariff' # tariff
    /\ arg' = [arg EXCEPT !.last = None, !.before = tariff']
    /\ ret' = NoRet
    /\ UNCHANGED <<today, minute, reading_day, reading_time, usage_type>>
    /\ UNCHANGED sensorVars

\* TotalBillSensor._calculate_bill, once the entry is loaded
CalculateStoredBill ==
    /\ arg.loaded
    /\ ret = NoRet
    /\ \E bill \in {ComputeTotalBillFromUsage(ScrapeUsage, tariff, today, reading_day,
                                               usage_type)} :
        ret' = [fn |-> "_calculate_bill", val |-> bill.total_fee]
    /\ UNCHANGED <<today, minute, reading_day, reading_time, usage_type, tariff, arg>>
    /\ UNCHANGED sensorVars

NextScrape ==
    \/ AsyncUpdateData
    \/ async_update_price_data
    \/ async_update_heat_data
    \/ UserSetValue
    \/ CalculateStoredBill

SpecScrape == InitScrape /\ [][NextScrape]_vars

(***************************************************************************)
(* SpecUsage: the monthly usage as MonthlyGasUsageSensor shows it and as   *)
(* _calculate_bill feeds it into the bill.  Readings are in 1/ReadingDen   *)
(* m3, one decimal digit more than round(usage, 2) keeps; NoValue stands   *)
(* for an unavailable, unknown or non-numeric state.  round() of a float   *)
(* that lies halfway between two results goes either way, depending on the *)
(* binary representation of the float.                                     *)
(***************************************************************************)
RoundDigits == 2
RoundDen == 10 ^ RoundDigits
ReadingDen == 10 * RoundDen
RoundStep == ReadingDen \div RoundDen
MaxReading == 24
Readings == 0..MaxReading \cup {NoValue}

\* round(x, 2) for x >= 0: the results it can have
Round2(x) ==
    LET lo == (x \div RoundStep) * RoundStep
        r == x % RoundStep
    IN  IF 2 * r < RoundStep THEN {lo}
        ELSE IF 2 * r > RoundStep THEN {lo + RoundStep}
        ELSE {lo, lo + RoundStep}

\* round(usage, 2) if usage >= 0 else 0
UsageShown(current_reading, start) ==
    IF current_reading - start >= 0 THEN Round2(current_reading - start) ELSE {0}

InitUsage ==
    /\ today = Date(2024, 3, 5)
    /\ reading_day = 26
    /\ minute = 0
    /\ reading_time = [fmt |-> "HH:MM", minute |-> 0]
    /\ usage_type = "combined"
    /\ tariff = DefaultTariff
    /\ arg \in [current_reading : Readings, start_reading : Readings]
    /\ ret = NoRet
    /\ SensorConstructed(0, 0)

\* MonthlyGasUsageSensor.async_update
UsageSensorUpdate ==
    /\ ret = NoRet
    /\ IF arg.current_reading = NoValue \/ arg.start_reading = NoValue
       THEN ret' = [fn |-> "async_update", val |-> NoValue]
       ELSE \E v \in UsageShown(arg.current_reading, arg.start_reading) :
                ret' = [fn |-> "async_update", val |-> v]
    /\ UNCHANGED <<today, minute, reading_day, reading_time, usage_type, tariff, arg>>
    /\ UNCHANGED sensorVars

\* TotalBillSensor._calculate_bill up to monthly_usage
BillUsage ==
    /\ ret = NoRet
    /\ IF arg.current_reading = NoValue \/ arg.start_reading = NoValue
       THEN ret' = [fn |-> "_calculate_bill", val |-> NoValue]
       ELSE ret' = [fn |-> "_calculate_bill",
                    val |-> MonthlyUsageRaw(arg.current_reading, arg.start_reading)]
    /\ UNCHANGED <<today, minute, reading_day, reading_time, usage_type, tariff, arg>>
    /\ UNCHANGED sensorVars

NextUsage == UsageSensorUpdate \/ BillUsage

SpecUsage == InitUsage /\ [][NextUsage]_vars

(***************************************************************************)
(* SpecPeriod: compute_total_bill_from_usage from the tuple that           *)
(* self.split_days_for_period(today) hands it, for tuples with a           *)
(* total_days of 0 and below as well.  The calculator's own                *)
(* split_days_for_period gives the first tuple of PeriodSplits.            *)
(***************************************************************************)
PeriodToday == Date(2024, 3, 5)
PeriodSplits ==
    {SplitDaysForPeriod(PeriodToday, 26),
     [start_of_period |-> Date(2024, 3, 26), prev_days |-> 0, curr_days |-> 0,
      total_days |-> 0],
     [start_of_period |-> Date(2024, 3, 26), prev_days |-> 0, curr_days |-> -1,
      total_days |-> -1]}

InitPeriod ==
    /\ today = PeriodToday
    /\ reading_day = 26
    /\ minute = 0
    /\ reading_time = [fmt |-> "HH:MM", minute |-> 0]
    /\ usage_type \in UsageTypes
    /\ tariff \in BillTariffs
    /\ arg \in [corrected_usage : BillUsages, split : PeriodSplits]
    /\ ret = NoRet
    /\ SensorConstructed(0, 0)

CallBillOfPeriod ==
    /\ ret = NoRet
    /\ \E bill \in {BillOfPeriod(arg.corrected_usage, tariff, today, usage_type, arg.split)} :
        ret' = [fn |-> "compute_total_bill_from_usage", val |-> bill]
    /\ UNCHANGED <<today, minute, reading_day, reading_time, usage_type, tariff, arg>>
    /\ UNCHANGED sensorVars

NextPeriod == CallBillOfPeriod

SpecPeriod == InitPeriod /\ [][NextPeriod]_vars

(***************************************************************************)
(* SpecWallpad: WallpadCumulativeSensor, the virtual cumulative sensor of  *)
(* a meter that resets to 0 every month.                                   *)
(*                                                                         *)
(* arg.raw is the state of the raw sensor (NoValue: unavailable, unknown,  *)
(* not a number, or not reported yet after a start) and ret is the sensor: *)
(* native_value, _offset, _last_raw_value and extra_state_attributes       *)
(* (NoAttrs until _handle_raw_sensor_change sets them).  Every change of   *)
(* the sensor is written to the state machine at once, so the state that   *)
(* a restart restores is native_value with attrs.  arg.restarts counts the *)
(* restarts.                                                               *)
(***************************************************************************)
MaxRaw == 4
MaxOffset == 12
MaxRestarts == 2

\* __init__: 0.0, 0.0, 0.0 and no attributes
WallpadConstructed ==
    [native_value |-> 0, offset |-> 0, last_raw_value |-> 0, attrs |-> NoAttrs]

\* Mutant of OffsetAfter: a drop of the raw value is not detected
OffsetAfter_NoDropMutant(offset, last_raw_value, new_raw_value) == offset

\* if new_raw_value < self._last_raw_value: self._offset += self._last_raw_value
OffsetAfter(offset, last_raw_value, new_raw_value) ==
    IF new_raw_value < last_raw_value THEN offset + last_raw_value ELSE offset

\* _handle_raw_sensor_change for a numeric new state
HandleRawSensorChange(sensor, new_raw_value) ==
    LET offset == OffsetAfter(sensor.offset, sensor.last_raw_value, new_raw_value)
    IN  [native_value |-> new_raw_value + offset,
         offset |-> offset,
         last_raw_value |-> new_raw_value,
         attrs |-> [present |-> TRUE, accumulated_offset |-> offset,
                    last_raw_value |-> new_raw_value]]

\* __init__ and async_added_to_hass with last_state the state last written
RestoredFrom(last_state) ==
    [native_value |-> last_state.native_value,
     offset |-> IF last_state.attrs.present THEN last_state.attrs.accumulated_offset ELSE 0,
     last_raw_value |-> IF last_state.attrs.present THEN last_state.attrs.last_raw_value ELSE 0,
     attrs |-> NoAttrs]

InitWallpad ==
    /\ today = Date(2024, 3, 5)
    /\ reading_day = 26
    /\ minute = 0
    /\ reading_time = [fmt |-> "HH:MM", minute |-> 0]
    /\ usage_type = "combined"
    /\ tariff = DefaultTariff
    /\ arg = [raw |-> NoValue, restarts |-> 0]
    /\ ret = WallpadConstructed
    /\ SensorConstructed(0, 0)

\* The raw sensor reports a number
RawSensorChange ==
    /\ \E new_raw_value \in 0..MaxRaw :
        /\ new_raw_value # arg.raw
        /\ OffsetAfter(ret.offset, ret.last_raw_value, new_raw_value) <= MaxOffset
        /\ arg' = [arg EXCEPT !.raw = new_raw_value]
        /\ ret' = HandleRawSensorChange(ret, new_raw_value)
    /\ UNCHANGED <<today, minute, reading_day, reading_time, usage_type, tariff>>
    /\ UNCHANGED sensorVars

\* The raw sensor becomes unavailable, unknown or reports no number
RawSensorUnavailable ==
    /\ arg.raw # NoValue
    /\ arg' = [arg EXCEPT !.raw = NoValue]
    /\ UNCHANGED ret
    /\ UNCHANGED <<today, minute, reading_day, reading_time, usage_type, tariff>>
    /\ UNCHANGED sensorVars

\* Home Assistant restarts: the sensor is constructed anew and restored
Restart ==
    /\ arg.restarts < MaxRestarts
    /\ arg' = [raw |-> NoValue, restarts |-> arg.restarts + 1]
    /\ ret' = RestoredFrom(ret)
    /\ UNCHANGED <<today, minute, reading_day, reading_time, usage_type, tariff>>
    /\ UNCHANGED sensorVars

NextWallpad == RawSensorChange \/ RawSensorUnavailable

SpecWallpad == InitWallpad /\ [][NextWallpad]_vars

NextWallpadRestart == RawSensorChange \/ RawSensorUnavailable \/ Restart

SpecWallpadRestart == InitWallpad /\ [][NextWallpadRestart]_vars

(***************************************************************************)
(* C1: for every date and every reading day in 0..28 the day split is      *)
(* total: prev_days and curr_days are >= 0, total_days is their sum and    *)
(* equals (today - period_start).days + 1; prev_days is the number of      *)
(* calendar days from period_start up to the day before the first of       *)
(* today's month, curr_days the number from max(period_start, first of     *)
(* today's month) through today.                                           *)
(***************************************************************************)
PeriodCalendarDays(s, t) ==
    {dt \in [y : {s.y, t.y}, m : {s.m, t.m}, d : 1..31] :
        ValidDate(dt) /\ DateLe(s, dt) /\ DateLe(dt, t)}

C1_DaySplitTotality ==
    ret.fn = "split_days_for_period" =>
        LET r == ret.val
            s == r.start_of_period
            first == Date(today.y, today.m, 1)
            days == PeriodCalendarDays(s, today)
            before == {dt \in days : DateLt(dt, first)}
        IN  /\ r.prev_days >= 0
            /\ r.curr_days >= 0
            /\ r.total_days = r.prev_days + r.curr_days
            /\ r.total_days = DaysBetween(today, s) + 1
            /\ r.prev_days = Cardinality(before)
            /\ r.curr_days = Cardinality(days \ before)
            /\ (s.m = today.m /\ s.y = today.y => r.prev_days = 0)

C1_Witness ==
    /\ ret.fn = "split_days_for_period"
    /\ today = Date(2024, 3, 10)
    /\ reading_day = 26
    /\ ret.val.prev_days = 4
    /\ ret.val.curr_days = 10

(***************************************************************************)
(* C2: get_last_reading_date returns the period start by the rule: with    *)
(* reading_day = 0, today when today is the last day of its month and      *)
(* otherwise the last day of the previous month; with reading_day in       *)
(* 1..28, day reading_day of today's month when today.day >= reading_day   *)
(* and otherwise day reading_day of the previous month.  Both copies of    *)
(* the function (billing.py and sensor.py) follow it.                      *)
(***************************************************************************)
PrevMonthOf(t) == IF t.m = 1 THEN [y |-> t.y - 1, m |-> 12] ELSE [y |-> t.y, m |-> t.m - 1]

ExpectedPeriodStart(t, rd) ==
    LET pm == PrevMonthOf(t)
        tomorrow_is_first == t.d + 1 > DaysInMonth(t.y, t.m)
    IN  IF rd = 0
        THEN IF tomorrow_is_first THEN t
             ELSE Date(pm.y, pm.m, CHOOSE d \in 28..31 :
                        ValidDate(Date(pm.y, pm.m, d)) /\ ~ValidDate(Date(pm.y, pm.m, d + 1)))
        ELSE IF t.d >= rd THEN Date(t.y, t.m, rd) ELSE Date(pm.y, pm.m, rd)

C2_LastReadingDateRule ==
    ret.fn = "get_last_reading_date" =>
        /\ ret.val = ExpectedPeriodStart(today, reading_day)
        /\ ret.sensor_val = ExpectedPeriodStart(today, reading_day)
        /\ ValidDate(ret.val)

C2_Witness ==
    /\ ret.fn = "get_last_reading_date"
    /\ today = Date(2025, 1, 15)
    /\ reading_day = 0
    /\ ret.val = Date(2024, 12, 31)

(***************************************************************************)
(* C3: the reset is idempotent per calendar day.  A reset check that runs  *)
(* while the latch holds today (a reset has written the start reading and  *)
(* set the latch today) emits no event, leaves the start reading, the      *)
(* latch and the previous-period record unchanged and schedules no write,  *)
(* also inside the reading-day/reading-time window; a check that runs in   *)
(* the window of a reading day while the latch holds another day emits the *)
(* event of that day and, with the meter available, goes on to the write.  *)
(***************************************************************************)
C3_ResetIdempotentPerDay ==
    [][\A p \in Procs :
        (pc[p] = "check" /\ pc'[p] # "check") =>
            /\ (last_reset_day = today) =>
                   /\ events' = events
                   /\ start_reading' = start_reading
                   /\ last_reset_day' = last_reset_day
                   /\ prev_record' = prev_record
                   /\ pc'[p] = AfterCheck(p)
            /\ (IsReadingDay(today, reading_day) /\ IsReadingTime
                /\ last_reset_day # today) =>
                   /\ Len(events') = Len(events) + 1
                   /\ events'[Len(events')].day = today
                   /\ gas.ok => pc'[p] = "call"]_vars

\* two reading days were reset, and a check in the window of the second one
\* has just been skipped by the latch
C3_Witness ==
    /\ Len(events) = 2
    /\ events[1].day # events[2].day
    /\ events[2].day = today
    /\ last_reset_day = today
    /\ IsReadingDay(today, reading_day) /\ IsReadingTime
    /\ last_step = "check_skip"

(***************************************************************************)
(* C4: the write of a reset that read both readings stores                 *)
(* old_start + int(max(0, current_reading - old_start)): the stored value  *)
(* is >= old_start and a whole number of units above it; when              *)
(* current_reading >= old_start, 0 <= current_reading - new_start < 1;     *)
(* when current_reading < old_start, new_start = old_start.                *)
(***************************************************************************)
C4_ResetKeepsFraction ==
    [][\A p \in Procs :
        (pc[p] = "call" /\ pc'[p] = "latch") =>
            LET old == loc[p].start_reading
                cur == loc[p].current_reading
                new == start_reading'
            IN  /\ new >= old
                /\ (new - old) % Scale = 0
                /\ (cur >= old) => (0 <= cur - new /\ cur - new < Scale)
                /\ (cur < old) => (new = old)]_vars

\* a reset has written a start reading that leaves a fraction of a unit
C4_Witness ==
    \E p \in Procs :
        /\ pc[p] = "latch"
        /\ start_reading = loc[p].new_start_value
        /\ start_reading > loc[p].start_reading
        /\ loc[p].current_reading - start_reading = 1

\* The integer usages of the emitted snapshots, summed
RECURSIVE BilledUsage(_)
BilledUsage(evs) ==
    IF evs = <<>> THEN 0
    ELSE Head(evs).attributes.monthly_gas_usage + BilledUsage(Tail(evs))

(***************************************************************************)
(* C5: with every setting and reading available, whenever no reset is in   *)
(* progress, the integer usages of the emitted snapshots plus the unbilled *)
(* usage current_reading - start_reading equal current_reading minus the   *)
(* initial start reading.                                                  *)
(***************************************************************************)
C5_UsageConservation ==
    AllIdle =>
        BilledUsage(events) * Scale + (gas.v - start_reading) = gas.v - start0

(***************************************************************************)
(* C6: with every setting and reading available, each emitted snapshot is  *)
(* the bill of the period that ends at the reset: its start_date is the    *)
(* reading date before its end_date and its day split adds up to the days  *)
(* from start_date to end_date.                                            *)
(***************************************************************************)
C6_SnapshotOfEndedPeriod ==
    \A i \in DOMAIN events :
        LET a == events[i].attributes
        IN  /\ a.present
            /\ a.end_date = events[i].day
            /\ a.start_date = GetLastReadingDate(MinusOneDay(a.end_date), reading_day)
            /\ a.days_prev_month + a.days_curr_month = a.days_total
            /\ a.days_total >= DaysBetween(a.end_date, a.start_date)

(***************************************************************************)
(* C7: under every interleaving of the pending reset checks, and when a    *)
(* reading is unavailable at the first check, at most one snapshot event   *)
(* is emitted per calendar day.                                            *)
(***************************************************************************)
C7_OneEventPerDay ==
    \A i, j \in DOMAIN events : (i # j) => (events[i].day # events[j].day)

(***************************************************************************)
(* C8: in combined mode with an effective boundary > 0, for each period    *)
(* the boundary is boundary * days_p / total_days, the cooking energy is   *)
(* min(period energy, period boundary), the heating energy is the          *)
(* non-negative remainder, cooking + heating = period energy, and the      *)
(* period fee is cooking * cooking price + heating * heating price.        *)
(* Boundary 516, days 10/20/30, energies 300/800 give boundaries 172/344,  *)
(* cooking/heating 172/128 and 344/456.  (Numerators over D.)              *)
(***************************************************************************)
IsMinOf(x, a, b) == x <= a /\ x <= b /\ (x = a \/ x = b)

EffectiveBoundaryPositive ==
    /\ usage_type = "combined"
    /\ tariff.cooking_heating_boundary > 0
    /\ ~(tariff.prev_price_cooking = tariff.prev_price_heating
         /\ tariff.curr_price_cooking = tariff.curr_price_heating)

ScenarioC ==
    /\ today = Date(2024, 4, 20) /\ reading_day = 22
    /\ arg = 30 * UDen
    /\ tariff.prev_heat = 30 /\ tariff.curr_heat = 40
    /\ tariff.cooking_heating_boundary = 516

C8_BoundarySplit ==
    (ret.fn = "compute_total_bill_from_usage" /\ ~ret.val.degenerate
     /\ EffectiveBoundaryPositive) =>
        LET r == ret.val
            a == r.attrs
            B == tariff.cooking_heating_boundary
        IN  /\ r.prev_usage_mj = arg * a.days_prev_month * tariff.prev_heat
            /\ r.curr_usage_mj = arg * a.days_curr_month * tariff.curr_heat
            /\ r.boundary_prev_mj * a.days_total = B * a.days_prev_month * r.D
            /\ r.boundary_curr_mj * a.days_total = B * a.days_curr_month * r.D
            /\ IsMinOf(r.prev_cooking_mj, r.prev_usage_mj, r.boundary_prev_mj)
            /\ IsMinOf(r.curr_cooking_mj, r.curr_usage_mj, r.boundary_curr_mj)
            /\ r.prev_heating_mj >= 0 /\ r.curr_heating_mj >= 0
            /\ r.prev_cooking_mj + r.prev_heating_mj = r.prev_usage_mj
            /\ r.curr_cooking_mj + r.curr_heating_mj = r.curr_usage_mj
            /\ r.prev_fee = r.prev_cooking_mj * tariff.prev_price_cooking
                            + r.prev_heating_mj * tariff.prev_price_heating
            /\ r.curr_fee = r.curr_cooking_mj * tariff.curr_price_cooking
                            + r.curr_heating_mj * tariff.curr_price_heating
            /\ (ScenarioC =>
                    /\ a.days_prev_month = 10 /\ a.days_curr_month = 20
                    /\ a.days_total = 30
                    /\ r.prev_usage_mj = 300 * r.D /\ r.curr_usage_mj = 800 * r.D
                    /\ r.boundary_prev_mj = 172 * r.D /\ r.boundary_curr_mj = 344 * r.D
                    /\ r.prev_cooking_mj = 172 * r.D /\ r.prev_heating_mj = 128 * r.D
                    /\ r.curr_cooking_mj = 344 * r.D /\ r.curr_heating_mj = 456 * r.D)

C8_Witness ==
    /\ ret.fn = "compute_total_bill_from_usage"
    /\ EffectiveBoundaryPositive
    /\ ScenarioC
    /\ ret.val.prev_heating_mj = 128 * ret.val.D
    /\ ret.val.curr_cooking_mj = 344 * ret.val.D

(***************************************************************************)
(* C9: for each period the applied reduction is min(A * period_days /      *)
(* total_days, period_fee), A being the winter fee when the period's       *)
(* month is in {12, 1, 2, 3} and the non-winter fee otherwise; the         *)
(* previous period is keyed by period_start.month, the current one by      *)
(* today.month; 0 <= applied <= period fee, so no net fee is negative.     *)
(***************************************************************************)
SeasonFee(month) ==
    IF month = 12 \/ month <= 3 THEN tariff.winter_reduction_fee
    ELSE tariff.non_winter_reduction_fee

C9_ReductionCap ==
    (ret.fn = "compute_total_bill_from_usage" /\ ~ret.val.degenerate) =>
        LET r == ret.val
            a == r.attrs
            \* A * period_days / total_days as a numerator over D = UDen * total_days
            pro_prev == SeasonFee(a.start_date.m) * a.days_prev_month * UDen
            pro_curr == SeasonFee(today.m) * a.days_curr_month * UDen
        IN  /\ IsMinOf(r.actual_prev_reduction, pro_prev, r.prev_fee)
            /\ IsMinOf(r.actual_curr_reduction, pro_curr, r.curr_fee)
            /\ 0 <= r.actual_prev_reduction /\ r.actual_prev_reduction <= r.prev_fee
            /\ 0 <= r.actual_curr_reduction /\ r.actual_curr_reduction <= r.curr_fee
            /\ r.prev_fee - r.actual_prev_reduction >= 0
            /\ r.curr_fee - r.actual_curr_reduction >= 0

C9_Witness ==
    /\ ret.fn = "compute_total_bill_from_usage"
    /\ today = Date(2024, 4, 20) /\ reading_day = 22
    /\ tariff.winter_reduction_fee = 100000 /\ tariff.non_winter_reduction_fee = 200
    /\ ret.val.prev_fee > 0
    /\ ret.val.actual_prev_reduction = ret.val.prev_fee
    /\ ret.val.actual_curr_reduction < ret.val.curr_fee
    /\ ret.val.actual_curr_reduction > 0

(***************************************************************************)
(* C10: total_fee is a multiple of 10 with                                 *)
(* total_with_vat - 10 < total_fee <= total_with_vat, total_with_vat =     *)
(* 1.1 * (base_fee + prev_net_fee + curr_net_fee): truncated down to the   *)
(* tens, never rounded up.                                                 *)
(***************************************************************************)
C10_TruncationToTens ==
    (ret.fn = "compute_total_bill_from_usage" /\ ~ret.val.degenerate) =>
        LET r == ret.val
            \* base_fee + prev_net_fee + curr_net_fee as a numerator over D
            before_vat == tariff.base_fee * r.D
                          + (r.prev_fee - r.actual_prev_reduction)
                          + (r.curr_fee - r.actual_curr_reduction)
        IN  /\ r.total_fee % 10 = 0
            /\ r.total_fee >= 0
            \* total_fee <= 1.1 * before_vat / D
            /\ r.total_fee * 10 * r.D <= 11 * before_vat
            \* 1.1 * before_vat / D - 10 < total_fee
            /\ 11 * before_vat < (r.total_fee + 10) * 10 * r.D

C10_Witness ==
    /\ ret.fn = "compute_total_bill_from_usage"
    /\ tariff.base_fee = 1250
    /\ arg = 0
    /\ ret.val.total_fee = 1370

(***************************************************************************)
(* C11: aggregate_periodic returns current when today's month is not a     *)
(* billing month of the cycle (always for disabled, no cycle or an unknown *)
(* cycle), current + prev for odd (month % 2 = 1) and even (month % 2 = 0) *)
(* in a billing month, pre_prev ignored, and current + prev + pre_prev for *)
(* quarterly_1/2/3 when month % 3 = 1/2/0; a repeated call returns the     *)
(* value of the call before it.                                            *)
(***************************************************************************)
C11_AggregatePeriodic ==
    (ret.fn = "aggregate_periodic") =>
        LET c == arg.reading_cycle
            m == today.m
            billing ==
                \/ c = "odd" /\ m \in {1, 3, 5, 7, 9, 11}
                \/ c = "even" /\ m \in {2, 4, 6, 8, 10, 12}
                \/ c = "quarterly_1" /\ m \in {1, 4, 7, 10}
                \/ c = "quarterly_2" /\ m \in {2, 5, 8, 11}
                \/ c = "quarterly_3" /\ m \in {3, 6, 9, 12}
        IN  /\ ~billing => ret.val = arg.current_value
            /\ (billing /\ c \in {"odd", "even"}) =>
                   ret.val = arg.current_value + arg.prev_value
            /\ (billing /\ c \in QuarterlyCycles) =>
                   ret.val = arg.current_value + arg.prev_value + arg.pre_prev_value
            /\ (ret.calls > 1) => ret.last = ret.val

\* a quarterly sum of three different values in a billing month, called twice
C11_Witness ==
    /\ ret.fn = "aggregate_periodic"
    /\ ret.calls = 2
    /\ arg.reading_cycle = "quarterly_2" /\ today.m = 5
    /\ arg.current_value = 2 /\ arg.prev_value = 1 /\ arg.pre_prev_value = 2
    /\ ret.val = 5

(***************************************************************************)
(* C12 (as the code has it): with reading_day = 26 and today = 2024-03-26, *)
(* the reading day itself, the day split yields period_start = 2024-03-26, *)
(* prev_days = 0, curr_days = 1 and total_days = 1.                        *)
(***************************************************************************)
C12_ScenarioA ==
    (ret.fn = "split_days_for_period" /\ reading_day = 26 /\ today = Date(2024, 3, 26)) =>
        /\ ret.val.start_of_period = Date(2024, 3, 26)
        /\ ret.val.prev_days = 0
        /\ ret.val.curr_days = 1
        /\ ret.val.total_days = 1

C12_Witness ==
    /\ ret.fn = "split_days_for_period"
    /\ reading_day = 26
    /\ today = Date(2024, 3, 26)
    /\ ret.val.total_days = DaysBetween(today, ret.val.start_of_period) + 1

\* C12 as stated: the same split with period_start = 2024-02-26
C12_ScenarioA_AsStated ==
    (ret.fn = "split_days_for_period" /\ reading_day = 26 /\ today = Date(2024, 3, 26)) =>
        /\ ret.val.start_of_period = Date(2024, 2, 26)
        /\ ret.val.prev_days = 0
        /\ ret.val.curr_days = 1
        /\ ret.val.total_days = 1

\* The month after the month of a date
NextMonthOf(t) == IF t.m = 12 THEN [y |-> t.y + 1, m |-> 1] ELSE [y |-> t.y, m |-> t.m + 1]

(***************************************************************************)
(* C13: for every start date, the 29th, 30th and 31st included, both       *)
(* copies of get_next_reading_date return the last calendar day of the     *)
(* month after start's month when reading_day = 0 and the day reading_day  *)
(* of that month when reading_day is in 1..28; with reading_day = 0 and    *)
(* today = 2024-02-29 the period start is 2024-02-29 and the next reading  *)
(* date is 2024-03-31.                                                     *)
(***************************************************************************)
C13_NextReadingDate ==
    (ret.fn = "get_next_reading_date") =>
        LET nm == NextMonthOf(today)
            expected ==
                IF reading_day = 0
                THEN CHOOSE dt \in {Date(nm.y, nm.m, d) : d \in 28..31} :
                        ValidDate(dt) /\ ~ValidDate(Date(nm.y, nm.m, dt.d + 1))
                ELSE Date(nm.y, nm.m, reading_day)
        IN  /\ ret.val = expected
            /\ ret.sensor_val = expected
            /\ ValidDate(ret.val)
            /\ (reading_day = 0 /\ today = Date(2024, 2, 29)) =>
                   /\ ret.start_of_period = Date(2024, 2, 29)
                   /\ ret.next_reading_day = Date(2024, 3, 31)

\* Scenario B has been computed
C13_Witness ==
    /\ ret.fn = "get_next_reading_date"
    /\ reading_day = 0
    /\ today = Date(2024, 2, 29)
    /\ ret.next_reading_day = Date(2024, 3, 31)

(***************************************************************************)
(* C14: in combined mode, when the cooking and heating prices are equal in *)
(* the previous and in the current period, or the boundary is <= 0, the    *)
(* cooking fee of both periods is 0 and all energy of each period is       *)
(* priced at that period's heating rate, whatever the configured boundary; *)
(* when the prices are equal in only one period (or in none) and the       *)
(* boundary is positive, the configured boundary, prorated by days, is     *)
(* applied to both periods.                                                *)
(***************************************************************************)
C14_EqualPriceBoundary ==
    (ret.fn = "compute_total_bill_from_usage" /\ usage_type = "combined"
     /\ ~ret.val.degenerate) =>
        LET r == ret.val
            prev_equal == tariff.prev_price_cooking = tariff.prev_price_heating
            curr_equal == tariff.curr_price_cooking = tariff.curr_price_heating
            b == tariff.cooking_heating_boundary
            prev_mj == arg * r.attrs.days_prev_month * tariff.prev_heat
            curr_mj == arg * r.attrs.days_curr_month * tariff.curr_heat
            prev_b == b * r.attrs.days_prev_month * UDen
            curr_b == b * r.attrs.days_curr_month * UDen
        IN  IF (prev_equal /\ curr_equal) \/ b <= 0
            THEN /\ r.prev_cooking_fee = 0
                 /\ r.curr_cooking_fee = 0
                 /\ r.prev_heating_fee = prev_mj * tariff.prev_price_heating
                 /\ r.curr_heating_fee = curr_mj * tariff.curr_price_heating
            ELSE /\ r.prev_cooking_fee =
                        (IF prev_mj < prev_b THEN prev_mj ELSE prev_b)
                        * tariff.prev_price_cooking
                 /\ r.curr_cooking_fee =
                        (IF curr_mj < curr_b THEN curr_mj ELSE curr_b)
                        * tariff.curr_price_cooking
                 /\ r.prev_heating_fee =
                        (IF prev_mj < prev_b THEN 0 ELSE prev_mj - prev_b)
                        * tariff.prev_price_heating
                 /\ r.curr_heating_fee =
                        (IF curr_mj < curr_b THEN 0 ELSE curr_mj - curr_b)
                        * tariff.curr_price_heating

\* equal prices in both periods with a positive configured boundary and
\* energy in both periods
C14_Witness ==
    /\ ret.fn = "compute_total_bill_from_usage"
    /\ usage_type = "combined"
    /\ tariff.prev_price_cooking = tariff.prev_price_heating
    /\ tariff.curr_price_cooking = tariff.curr_price_heating
    /\ tariff.cooking_heating_boundary = 516
    /\ ~ret.val.degenerate
    /\ ret.val.prev_cooking_fee = 0 /\ ret.val.curr_cooking_fee = 0
    /\ ret.val.prev_heating_fee > 0 /\ ret.val.curr_heating_fee > 0

\* The record a reset event leaves in a previous-period sensor
RecordOf(ev) == [state |-> ev.state, attrs |-> ev.attributes]

(***************************************************************************)
(* C15: after any sequence of reset events the previous record holds the   *)
(* state and attributes of the most recent reset event and, once two or    *)
(* more resets have fired, the pre-previous record holds the state and     *)
(* attributes of the reset event before it.                                *)
(***************************************************************************)
C15_PreviousRecords ==
    /\ (Len(events) >= 1) => prev_record = RecordOf(events[Len(events)])
    /\ (Len(events) >= 2) => pre_prev_record = RecordOf(events[Len(events) - 1])

(***************************************************************************)
(* C16: for every stored reading-time value, "HH:MM" or "HH:MM:SS", a step *)
(* that emits a reset event or changes the start reading is taken only on  *)
(* the configured reading day and in the minute of the configured reading  *)
(* time.                                                                   *)
(***************************************************************************)
C16_ResetOnlyAtReadingTime ==
    [][(events' # events \/ start_reading' # start_reading) =>
            /\ IsReadingDay(today, reading_day)
            /\ minute = reading_time.minute]_vars

\* The integer usages of the events numbered in T, summed
RECURSIVE UsageOf(_)
UsageOf(T) ==
    IF T = {} THEN 0
    ELSE LET i == CHOOSE j \in T : TRUE
         IN  events[i].attributes.monthly_gas_usage + UsageOf(T \ {i})

\* The timer has woken the reset task on a reading day without a completed reset
TimerWoke ==
    /\ pc["timer"] = "check"
    /\ IsReadingDay(today, reading_day)
    /\ last_reset_day # today
    /\ gas.ok
    /\ Len(events) + 2 <= MaxEvents

\* The reset sequence of today is complete
ResetCompleted ==
    /\ last_reset_day = today
    /\ \E T \in SUBSET (1..Len(events)) :
        /\ \E i \in T : events[i].day = today
        /\ start_reading = start0 + UsageOf(T) * Scale

(***************************************************************************)
(* C17: when the timer has woken the reset task on a reading day, no reset *)
(* has completed that day and the meter reading and the start reading are  *)
(* available, then under SpecFair a state follows in which an event of     *)
(* today has been emitted, the latch equals today and the start reading    *)
(* has been advanced by the integer usage that events report, the one of   *)
(* an event of today included.  The cases are those that leave room for    *)
(* the events of the day within MaxEvents.                                 *)
(***************************************************************************)
C17_ResetCompletes == TimerWoke ~> ResetCompleted

C17_Witness ==
    /\ ResetCompleted
    /\ pc["timer"] = "idle"
    /\ woke
    /\ start_reading > start0

(***************************************************************************)
(* C18: a bill calculation that finds a rate setting or the meter reading  *)
(* unavailable leaves the displayed bill in place: the sensor's value and  *)
(* attributes after the failed calculation equal those before it.          *)
(***************************************************************************)
C18_FailedCalculationKeepsBill ==
    [][(pc["update"] = "calc" /\ pc'["update"] = "idle" /\ ~(rates_ok /\ gas.ok)) =>
            /\ native_value' = native_value
            /\ bill_attrs' = bill_attrs]_vars

(***************************************************************************)
(* C19: after a scrape that failed (no data, a timeout, an exception) the  *)
(* stored rate settings are those stored before it, the bill can be        *)
(* calculated, and a bill calculated then is the bill of the settings      *)
(* stored before the scrape; after a refresh of the manual provider the    *)
(* stored settings are those stored before it.                             *)
(***************************************************************************)
C19_FailedScrapeFrame ==
    /\ arg.last \in ScrapeFailures \cup {"manual"} => tariff = arg.before
    /\ arg.last \in ScrapeFailures =>
        /\ arg.loaded
        /\ ret # NoRet =>
            ret.val = ComputeTotalBillFromUsage(ScrapeUsage, arg.before, today,
                                                reading_day, usage_type).total_fee

\* The boundary a calculation applies: none for cooking_only and heating_only
BoundaryUsed(tf, ut) ==
    IF ut \in {"cooking_only", "heating_only"} THEN 0 ELSE EffectiveBoundary(tf)

(***************************************************************************)
(* C20: the cooking_heating_boundary attribute of a calculation result is  *)
(* the boundary the calculation used: 0 when the equal-price rule applies  *)
(* or the usage type is cooking_only or heating_only, the configured       *)
(* boundary otherwise.                                                     *)
(***************************************************************************)
C20_ReportedBoundaryIsUsed ==
    (ret # NoRet /\ ~ret.val.degenerate) =>
        ret.val.attrs.cooking_heating_boundary = BoundaryUsed(tariff, usage_type)

\* Both readings of a usage computation are available
BothAvailable == arg.current_reading # NoValue /\ arg.start_reading # NoValue

\* max(0, current_reading - period_start_reading)
ExactUsage == Max(0, arg.current_reading - arg.start_reading)

(***************************************************************************)
(* C21: with both readings available, the usage fed into the bill          *)
(* calculation equals max(0, current_reading - period_start_reading), and  *)
(* the usage the usage sensor shows is that value rounded to two decimals  *)
(* (at most half a hundredth away from it); neither is ever negative, also *)
(* when the start reading exceeds the current reading.                     *)
(***************************************************************************)
C21_UsageRule ==
    (ret # NoRet /\ BothAvailable) =>
        /\ ret.val >= 0
        /\ ret.fn = "_calculate_bill" => ret.val = ExactUsage
        /\ ret.fn = "async_update" =>
            /\ ret.val % RoundStep = 0
            /\ 2 * (ret.val - ExactUsage) <= RoundStep
            /\ 2 * (ExactUsage - ret.val) <= RoundStep

C21_Witness ==
    /\ ret # NoRet
    /\ BothAvailable
    /\ ret.fn = "_calculate_bill"
    /\ arg.start_reading > arg.current_reading
    /\ ret.val = 0

\* C21 as stated: the usage shown equals max(0, current - start) exactly
C21_UsageRule_AsStated ==
    (ret # NoRet /\ BothAvailable) => ret.val = ExactUsage

(***************************************************************************)
(* C22: for total_days > 0 the usage is allocated by days: prev_usage_m3 = *)
(* corrected_usage * prev_days / total_days, curr_usage_m3 =               *)
(* corrected_usage * curr_days / total_days, the two parts add up to       *)
(* corrected_usage, and each part is converted to energy with the heat     *)
(* value of its own period.  The parts are numerators over D.              *)
(***************************************************************************)
C22_AllocationConserves ==
    (ret # NoRet /\ ~ret.val.degenerate) =>
        LET a == ret.val.attrs
        IN  /\ ret.val.D = UDen * a.days_total
            /\ ret.val.prev_usage_m3 * a.days_total = arg * a.days_prev_month * a.days_total
            /\ ret.val.curr_usage_m3 * a.days_total = arg * a.days_curr_month * a.days_total
            /\ (ret.val.prev_usage_m3 + ret.val.curr_usage_m3) * UDen = arg * ret.val.D
            /\ ret.val.prev_usage_mj = ret.val.prev_usage_m3 * tariff.prev_heat
            /\ ret.val.curr_usage_mj = ret.val.curr_usage_m3 * tariff.curr_heat

C22_Witness ==
    /\ ret # NoRet
    /\ ~ret.val.degenerate
    /\ arg > 0
    /\ ret.val.prev_usage_m3 > 0
    /\ ret.val.curr_usage_m3 > 0
    /\ ret.val.prev_usage_m3 # ret.val.curr_usage_m3
    /\ tariff.prev_heat # tariff.curr_heat

\* The diagnostics a result for total_days <= 0 carries
DegenerateAttrs ==
    {"start_date", "end_date", "days_total", "days_prev_month", "days_curr_month",
     "cooking_heating_boundary"}

BillOfIntegerUsage(cur, start) ==
    ComputeTotalBillFromUsage(
        IntPart(MonthlyUsageRaw(cur, start)) * Scale * tariff.correction_factor,
        tariff, today, reading_day, usage_type).total_fee

(***************************************************************************)
(* C24: in every reset the event is emitted before the start reading is    *)
(* written.  The step that emits the event leaves the start reading alone, *)
(* and a payload it computes is the bill and the integer usage of the      *)
(* readings of that moment; the step that writes the start reading belongs *)
(* to a reset that has emitted its event on the same day, writes the value *)
(* that reset derived from the same readings, and emits nothing.           *)
(***************************************************************************)
C24_EventBeforeWrite ==
    [][/\ events' # events =>
            /\ start_reading' = start_reading
            /\ Len(events') = Len(events) + 1
            /\ (rates_ok /\ gas.ok) =>
                LET ev == events'[Len(events')]
                IN  /\ ev.state = BillOfIntegerUsage(gas.v, start_reading)
                    /\ ev.attributes.monthly_gas_usage =
                            IntPart(MonthlyUsageRaw(gas.v, start_reading))
       /\ start_reading' # start_reading =>
            \E p \in Procs :
                /\ pc[p] = "call" /\ pc'[p] = "latch"
                /\ events' = events
                /\ \E i \in 1..Len(events) : events[i].day = loc[p].today
                /\ start_reading = loc[p].start_reading \/ Len(events) > 1
                /\ start_reading' = loc[p].start_reading
                        + IntPart(MonthlyUsageRaw(loc[p].current_reading,
                                                  loc[p].start_reading)) * Scale
      ]_vars

\* a reset has emitted its event with a computed payload and then written
C24_Witness ==
    /\ pc["timer"] = "latch"
    /\ Len(events) = 1
    /\ events[1].day = loc["timer"].today
    /\ events[1].attributes.monthly_gas_usage > 0
    /\ start_reading = loc["timer"].start_reading
            + events[1].attributes.monthly_gas_usage * Scale

(***************************************************************************)
(* C25: for every sequence of non-negative raw readings the cumulative     *)
(* value equals raw + offset after every update and never decreases; on a  *)
(* drop of the raw value the offset grows by the last raw value, so the    *)
(* value is its value before the drop plus the new raw value; a raw state  *)
(* that is unavailable, unknown or no number changes nothing.              *)
(***************************************************************************)
C25_CumulativeRule ==
    [][/\ ret'.native_value >= ret.native_value
       /\ arg'.raw = NoValue => ret' = ret
       /\ arg'.raw # NoValue =>
            /\ ret'.native_value = arg'.raw + ret'.offset
            /\ ret'.last_raw_value = arg'.raw
            /\ arg'.raw < ret.last_raw_value =>
                /\ ret'.offset = ret.offset + ret.last_raw_value
                /\ ret'.native_value = ret.native_value + arg'.raw
            /\ arg'.raw >= ret.last_raw_value => ret'.offset = ret.offset
      ]_vars

\* the raw value has dropped twice and risen again
C25_Witness ==
    /\ arg.raw # NoValue
    /\ arg.raw > 0
    /\ ret.offset > MaxRaw
    /\ ret.native_value = arg.raw + ret.offset

(***************************************************************************)
(* C30: a restart restores the value, the offset and the last raw value    *)
(* held before it, also the second of two restarts with no raw update      *)
(* between them, and the cumulative value never decreases, neither across  *)
(* a restart nor at the first raw update after it.                         *)
(***************************************************************************)
C30_RestartKeepsCumulative ==
    [][/\ arg'.restarts # arg.restarts =>
            /\ ret'.native_value = ret.native_value
            /\ ret'.offset = ret.offset
            /\ ret'.last_raw_value = ret.last_raw_value
       /\ ret'.native_value >= ret.native_value
      ]_vars

(***************************************************************************)
(* C26: whenever a reset changes the start reading, the event of that      *)
(* reset carries as monthly_gas_usage the amount by which the start        *)
(* reading is advanced, and its state is the bill of exactly that integer  *)
(* usage times the correction factor, also when a rate setting is          *)
(* unavailable at reset time.                                              *)
(***************************************************************************)
C26_EventMatchesAdvance ==
    [][\A p \in Procs :
        (pc[p] = "call" /\ pc'[p] = "latch" /\ start_reading' # start_reading) =>
            \E i \in 1..Len(events) :
                /\ events[i].day = loc[p].today
                /\ events[i].attributes.present
                /\ events[i].attributes.monthly_gas_usage * Scale
                        = start_reading' - start_reading
                /\ events[i].state =
                        ComputeTotalBillFromUsage(
                            (start_reading' - start_reading) * tariff.correction_factor,
                            tariff, loc[p].today, reading_day, usage_type).total_fee
      ]_vars

(***************************************************************************)
(* C27: for every date and every reading_day in 0..28 the period start is  *)
(* not after today and 1 <= total_days <= 31, so the bill calculation does *)
(* not take its total_days <= 0 branch for a split of                      *)
(* split_days_for_period; on a reading day the split is period_start =     *)
(* today, prev_days = 0, curr_days = 1.                                    *)
(***************************************************************************)
C27_PeriodNeverEmpty ==
    ret.fn = "split_days_for_period" =>
        /\ DateLe(ret.val.start_of_period, today)
        /\ ret.val.total_days >= 1
        /\ ret.val.total_days <= 31
        /\ ~BillOfPeriod(UDen, tariff, today, usage_type, ret.val).degenerate
        /\ IsReadingDay(today, reading_day) =>
            /\ ret.val.start_of_period = today
            /\ ret.val.prev_days = 0
            /\ ret.val.curr_days = 1

\* the longest period: 31 days, reaching back into the previous month
C27_Witness ==
    /\ ret.fn = "split_days_for_period"
    /\ ret.val.total_days = 31
    /\ ret.val.prev_days > 0
    /\ reading_day = 0

(***************************************************************************)
(* C28: billing periods tile the calendar.  With s the last reading date   *)
(* of today and n the next reading date of s: s <= today < n, the last     *)
(* reading date of s is s, of n is n, and of n - 1 day is s; so the        *)
(* estimated bill, computed for the end date n - 1 day, has the same       *)
(* period start s as the live bill of today.                               *)
(***************************************************************************)
C28_PeriodsTile ==
    ret.fn = "estimated_bill_period" =>
        LET s == ret.start_of_period
            n == ret.next_reading_day
        IN  /\ s = GetLastReadingDate(today, reading_day)
            /\ n = GetNextReadingDate(s, reading_day)
            /\ DateLe(s, today)
            /\ DateLt(today, n)
            /\ GetLastReadingDate(s, reading_day) = s
            /\ GetLastReadingDate(n, reading_day) = n
            /\ GetLastReadingDate(ret.calculation_end_date, reading_day) = s
            /\ ret.estimated_split.start_of_period = s
            /\ ret.live_split.start_of_period = s

\* an end-of-month period that starts on the last day of a leap February
C28_Witness ==
    /\ ret.fn = "estimated_bill_period"
    /\ reading_day = 0
    /\ ret.start_of_period = Date(2024, 2, 29)
    /\ ret.calculation_end_date = Date(2024, 3, 30)
    /\ today # ret.start_of_period

\* floor(base_fee * 1.1 / 10) * 10: the bill of the base fee alone
BaseFeeOnlyBill(tf) == FinalTotalFee(tf.base_fee, 1)

\* The corrected usage of the reset snapshot for the corrected usage U: the
\* integer part of the usage U / correction_factor, corrected again
SnapshotUsage(U, tf) ==
    (U \div (Scale * tf.correction_factor)) * Scale * tf.correction_factor

(***************************************************************************)
(* C29: with the date, usage type and tariff fixed, total_fee does not     *)
(* decrease when the corrected usage grows, is never below the bill of the *)
(* base fee alone, floor(base_fee * 1.1 / 10) * 10, and equals it at zero  *)
(* usage; the bill of the integer part of the usage (the reset snapshot)   *)
(* is never above the bill of the full usage (the live bill).              *)
(***************************************************************************)
C29_BillMonotone ==
    ret # NoRet =>
        /\ ret.val.total_fee >= BaseFeeOnlyBill(tariff)
        /\ arg = 0 => ret.val.total_fee = BaseFeeOnlyBill(tariff)
        /\ \A u \in BillUsages :
            u <= arg =>
                ComputeTotalBillFromUsage(u, tariff, today, reading_day, usage_type).total_fee
                    <= ret.val.total_fee
        /\ ComputeTotalBillFromUsage(SnapshotUsage(arg, tariff), tariff, today,
                                     reading_day, usage_type).total_fee
                <= ret.val.total_fee

\* a usage of one and a half units, billed above its integer part, with a
\* reduction that is capped by the fee of the period
C29_Witness ==
    /\ ret # NoRet
    /\ arg = 3 * (UDen \div 2)
    /\ SnapshotUsage(arg, tariff) = UDen
    /\ ComputeTotalBillFromUsage(UDen, tariff, today, reading_day, usage_type).total_fee
            < ret.val.total_fee
    /\ ret.val.actual_curr_reduction > 0
    /\ ret.val.actual_curr_reduction = ret.val.curr_fee
    /\ tariff.base_fee > 0

====
